---- MODULE Spec2Model ----
(***************************************************************************)
(* StockMarginDetail (sz/stock_data/market/margin_detail.py): the cached   *)
(* table of margin-trading detail records and its incremental update.      *)
(*                                                                         *)
(* Dates are proleptic Gregorian ordinals (datetime.date.toordinal()); a   *)
(* date written as text (the CSV column, the provider's 'YYYYMMDD'         *)
(* argument and column) is the number whose decimal digits are YYYYMMDD.   *)
(* A table is a sequence of rows [trade_date, ts_code, val].               *)
(***************************************************************************)
EXTENDS Integers, Sequences, FiniteSets, TLC

(* ------------------------------ bounds -------------------------------- *)
\* longest cache file the environment puts on disk before the first call
MaxCacheLen == 2
\* calendar days before base_date that a cached row may carry
Lookback == 3
\* calendar days after base_date the trading calendar can advance to
Horizon == 2

(* --------------------------- program constants ------------------------ *)
\* date(year = 2014, month = 9, day = 22).toordinal()
base_date == 735498

Columns == {"trade_date", "ts_code", "val"}
Entities == {"000001.SZ"}
Vals == {1}
Exceptions == {"ConnectionError", "Timeout"}

FirstDay == base_date - Lookback
LastDay == base_date + Horizon
Days == FirstDay .. LastDay

(* ------------------------- calendar arithmetic ------------------------ *)
IsLeap(y) == (y % 4 = 0) /\ ((y % 100 # 0) \/ (y % 400 = 0))

DaysInMonth(y, m) ==
    IF m = 2 THEN (IF IsLeap(y) THEN 29 ELSE 28)
    ELSE IF m \in {4, 6, 9, 11} THEN 30 ELSE 31

RECURSIVE DaysBeforeMonth(_, _)
DaysBeforeMonth(y, m) ==
    IF m <= 1 THEN 0 ELSE DaysBeforeMonth(y, m - 1) + DaysInMonth(y, m - 1)

DaysBeforeYear(y) ==
    (y - 1) * 365 + ((y - 1) \div 4) - ((y - 1) \div 100) + ((y - 1) \div 400)

\* ordinal of the date year-month-day
ymd2ord(y, m, d) == DaysBeforeYear(y) + DaysBeforeMonth(y, m) + d

\* year, month and day of an ordinal, as <<y, m, d>>
ord2ymd(ord) ==
    LET n0   == ord - 1
        n400 == n0 \div 146097
        r400 == n0 % 146097
        n100 == r400 \div 36524
        r100 == r400 % 36524
        n4   == r100 \div 1461
        r4   == r100 % 1461
        n1   == r4 \div 365
        n    == r4 % 365
        year == n400 * 400 + 1 + n100 * 100 + n4 * 4 + n1
    IN  IF n1 = 4 \/ n100 = 4
        THEN <<year - 1, 12, 31>>
        ELSE LET m0 == (n + 50) \div 32
                 p0 == DaysBeforeMonth(year, m0)
                 m  == IF p0 > n THEN m0 - 1 ELSE m0
                 p  == DaysBeforeMonth(year, m)
             IN  <<year, m, n - p + 1>>

\* a date written as text: the digits YYYYMMDD
format_date(ord) ==
    LET t == ord2ymd(ord) IN t[1] * 10000 + t[2] * 100 + t[3]

\* the date a text YYYYMMDD denotes
parse_date(txt) == ymd2ord(txt \div 10000, (txt \div 100) % 100, txt % 100)

\* toolbox.datetime.ts_date: the provider's 'YYYYMMDD' form of a date
ts_date(d) == format_date(d)

\* toolbox.datetime.to_datetime64: the date of a provider 'YYYYMMDD' value
to_datetime64(x) == parse_date(x)

\* date.weekday(): Monday is 0
weekday(d) == (d + 6) % 7

\* the exchange trades on weekdays
IsTradeDay(d) == weekday(d) < 5

(* ------------------------------ tables -------------------------------- *)
Row(d, e, v) == [trade_date |-> d, ts_code |-> e, val |-> v]

\* the trade_date column parsed from text
ParseDates(rows) ==
    [i \in 1 .. Len(rows) |->
        Row(parse_date(rows[i].trade_date), rows[i].ts_code, rows[i].val)]

\* the trade_date column written as text
FormatDates(rows) ==
    [i \in 1 .. Len(rows) |->
        Row(format_date(rows[i].trade_date), rows[i].ts_code, rows[i].val)]

\* the rows of a table as a set
Records(rows) == {rows[i] : i \in 1 .. Len(rows)}

\* the trade dates of a table
Dates(rows) == {rows[i].trade_date : i \in 1 .. Len(rows)}

\* the largest member of a non-empty set of integers
Max(S) == CHOOSE x \in S : \A y \in S : y <= x

\* the smallest member of a non-empty set of integers
Min(S) == CHOOSE x \in S : \A y \in S : x <= y

\* r placed behind every row of sorted whose trade date is not later
InsertByDate(sorted, r) ==
    LET k == Cardinality({i \in 1 .. Len(sorted) :
                             sorted[i].trade_date <= r.trade_date})
    IN  SubSeq(sorted, 1, k) \o <<r>> \o SubSeq(sorted, k + 1, Len(sorted))

\* DataFrame.sort_values(by = 'trade_date'): ascending, ties keep their order
RECURSIVE sort_values(_)
sort_values(rows) ==
    IF rows = <<>> THEN <<>>
    ELSE InsertByDate(sort_values(SubSeq(rows, 1, Len(rows) - 1)),
                      rows[Len(rows)])

\* DataFrame.drop_duplicates(): the first of every group of identical rows
RECURSIVE drop_duplicates(_)
drop_duplicates(rows) ==
    IF rows = <<>> THEN <<>>
    ELSE LET init == drop_duplicates(SubSeq(rows, 1, Len(rows) - 1))
             last == rows[Len(rows)]
         IN  IF last \in Records(init) THEN init ELSE Append(init, last)

\* pd.concat: the frames of a list one after another
RECURSIVE concat(_)
concat(frames) ==
    IF frames = <<>> THEN <<>> ELSE Head(frames) \o concat(Tail(frames))

\* DataFrame.shape: (number of rows, number of columns)
shape(df) == <<Len(df), Cardinality(Columns)>>

\* truth value of a Python tuple: false only for the empty tuple
Truthy(t) == Len(t) > 0

\* rows sorted ascending by trade date
IsSorted(rows) ==
    \A i, j \in 1 .. Len(rows) : i < j => rows[i].trade_date <= rows[j].trade_date

\* no two rows with the same (trade date, entity) pair
NoDuplicateKeys(rows) ==
    \A i, j \in 1 .. Len(rows) :
        (i # j) => ~(rows[i].trade_date = rows[j].trade_date
                     /\ rows[i].ts_code = rows[j].ts_code)

(* ------------------------------- files -------------------------------- *)
NoFile == [exists |-> FALSE, rows |-> <<>>]

\* pd.read_csv(parse_dates = ['trade_date']): the rows of the file, dates parsed
read_csv(f) == ParseDates(f.rows)

\* DataFrame.to_csv(index = False): the file holding the rows, dates as text
to_csv(rows) == [exists |-> TRUE, rows |-> FormatDates(rows)]

\* the table a file holds (empty when there is no file)
FileTable(f) == IF f.exists THEN read_csv(f) ELSE <<>>

None == [isNone |-> TRUE, rows |-> <<>>]
Frame(rows) == [isNone |-> FALSE, rows |-> rows]

(* ------------------------- external collaborators --------------------- *)
\* trade_calendar.trade_day_between: the trading days from_date .. to_date,
\* in calendar order
RECURSIVE trade_day_between(_, _)
trade_day_between(from_date, to_date) ==
    IF from_date > to_date THEN <<>>
    ELSE IF IsTradeDay(to_date)
         THEN Append(trade_day_between(from_date, to_date - 1), to_date)
         ELSE trade_day_between(from_date, to_date - 1)

\* toolbox.helper.need_update_by_trade_date: the answers it can give; the
\* cached maximum older than the latest trading day; either answer for a
\* table without rows
need_update_by_trade_date(rows, latest_trade_day) ==
    IF rows = <<>> THEN BOOLEAN
    ELSE {Max(Dates(rows)) < latest_trade_day}

\* the tables the provider can answer a request with: rows of the first
\* requested day, their trade_date in the provider's text form
margin_detail(req) ==
    {<<>>} \cup {<<Row(req.start_date, e, v)>> : e \in Entities, v \in Vals}

(* --------------------------- StockMarginDetail ------------------------- *)
\* load() without its sort_values
load_unsorted(f) ==
    IF f.exists THEN Frame(read_csv(f)) ELSE Frame(<<>>)

\* load(): the file's rows sorted by trade date, or an empty table
load(f) ==
    IF f.exists THEN Frame(sort_values(read_csv(f))) ELSE Frame(<<>>)

\* prepare(): load once
prepare(f, df) == IF df.isNone THEN load(f) ELSE df

\* should_update() answering False when there is no file
should_update_no_file_false(f, df, latest_trade_day) ==
    IF ~f.exists THEN {FALSE}
    ELSE need_update_by_trade_date(prepare(f, df).rows, latest_trade_day)

\* should_update(): the values it can return
should_update(f, df, latest_trade_day) ==
    IF ~f.exists THEN {TRUE}
    ELSE need_update_by_trade_date(prepare(f, df).rows, latest_trade_day)

\* should_update(): self.dataframe when it returns
should_update_dataframe(f, df) == IF ~f.exists THEN df ELSE prepare(f, df)

\* start_date(): the value it returns
start_date(f, df) ==
    LET rows == prepare(f, df).rows
    IN  IF rows = <<>> THEN base_date
        ELSE rows[Len(rows)].trade_date + 1

\* ts_margin_detail() asking for everything from base_date up to the day
margin_detail_request_range(trade_date) ==
    [start_date |-> ts_date(base_date), end_date |-> ts_date(trade_date)]

\* ts_margin_detail(): the query sent to the provider for one trading day
margin_detail_request(trade_date) ==
    [start_date |-> ts_date(trade_date), end_date |-> ts_date(trade_date)]

\* ts_margin_detail(): the frame made of the provider's answer
ts_margin_detail(answer) ==
    sort_values([i \in 1 .. Len(answer) |->
        Row(to_datetime64(answer[i].trade_date), answer[i].ts_code, answer[i].val)])

\* update() keeping every fetched frame that has rows
slice_is_kept_nonempty(df) == Len(df) > 0

\* update(): the test deciding whether a fetched frame joins df_list
slice_is_kept(df) == ~Truthy(shape(df))

\* update(): df_list after the fetch of one day returned df
append_slice(frames, df) ==
    IF slice_is_kept(df) THEN Append(frames, df) ELSE frames

\* update() with an except clause that logs and does not raise
except_clause_swallow(ex) == [kind |-> "returned", ex |-> "none"]

\* update(): the except clause logs and raises the exception again
except_clause(ex) == [kind |-> "raised", ex |-> ex]

\* update() with a finally clause that opens the file for writing before
\* it looks at df_list
finally_clause_truncating(frames, f, df) ==
    IF Len(frames) > 1
    THEN LET merged == sort_values(drop_duplicates(concat(frames)))
         IN  [dataframe |-> Frame(merged), file |-> to_csv(merged), writes |-> 1]
    ELSE [dataframe |-> df, file |-> to_csv(<<>>), writes |-> 1]

\* update(): the finally clause; the frame in memory, the file on disk and
\* the number of writes it made
finally_clause(frames, f, df) ==
    IF Len(frames) > 1
    THEN LET merged == sort_values(drop_duplicates(concat(frames)))
         IN  [dataframe |-> Frame(merged), file |-> to_csv(merged), writes |-> 1]
    ELSE [dataframe |-> df, file |-> f, writes |-> 0]

(* ------------------------------- state -------------------------------- *)
VARIABLES
    file,            \* <data_dir>/market/margin_trading_detail.csv
    dataframe,       \* self.dataframe
    latest,          \* trade_calendar.latest_trade_day()
    pc,              \* "idle", or "fetching" inside update()'s loop
    last_trade_day,  \* update(): last_trade_day
    trad_date_list,  \* update(): trad_date_list
    idx,             \* update(): position of the loop in trad_date_list
    df_list,         \* update(): df_list
    requests,        \* provider queries of the current or last update()
    fetched,         \* frames the fetches of that update() returned
    result,          \* how the last call ended and what it returned
    file0,           \* the file when the current or last call began
    frame0,          \* self.dataframe after prepare() in that update()
    latest0,         \* the latest trading day when that call began
    needed,          \* what should_update() answered inside that update()
    writes,          \* writes of the file by the current or last update()
    plan,            \* trad_date_list of the current or last update()
    fault,           \* the fetch of that update() that raised, and what it raised
    lastEnd,         \* file and latest trading day at the end of the last update()
    prevEnd          \* the same for the update() before it

vars == <<file, dataframe, latest, pc, last_trade_day, trad_date_list, idx,
          df_list, requests, fetched, result, file0, frame0, latest0, needed,
          writes, plan, fault, lastEnd, prevEnd>>

locals == <<last_trade_day, trad_date_list, idx, df_list>>
history == <<requests, fetched, frame0, needed, writes, plan, fault, lastEnd, prevEnd>>

TradeDays == {d \in Days : IsTradeDay(d)}

\* rows a cache file can hold, dates as text
CsvRows == {Row(format_date(d), e, v) : d \in Days, e \in Entities, v \in Vals}

RECURSIVE SeqsUpTo(_, _)
SeqsUpTo(S, n) ==
    IF n = 0 THEN {<<>>}
    ELSE LET shorter == SeqsUpTo(S, n - 1)
         IN  shorter \cup {Append(q, x) : q \in shorter, x \in S}

NoResult == [op |-> "none", kind |-> "none", flag |-> FALSE, day |-> 0, ex |-> "none"]
Returned(op) == [NoResult EXCEPT !.op = op, !.kind = "returned"]
NoFault == [at |-> 0, ex |-> "none"]
NoEnd == [valid |-> FALSE, file |-> NoFile, latest |-> 0, kind |-> "none"]

\* a new manager: nothing loaded; the data directory holds no file or any
\* file of at most MaxCacheLen rows, in any order
Init ==
    /\ file \in {NoFile} \cup {[exists |-> TRUE, rows |-> q] : q \in SeqsUpTo(CsvRows, MaxCacheLen)}
    /\ dataframe = None
    /\ latest \in TradeDays
    /\ pc = "idle"
    /\ last_trade_day = 0
    /\ trad_date_list = <<>>
    /\ idx = 0
    /\ df_list = <<>>
    /\ requests = <<>>
    /\ fetched = <<>>
    /\ result = NoResult
    /\ file0 = file
    /\ frame0 = None
    /\ latest0 = latest
    /\ needed = FALSE
    /\ writes = 0
    /\ plan = <<>>
    /\ fault = NoFault
    /\ lastEnd = NoEnd
    /\ prevEnd = NoEnd

(* ------------------------------ operations ---------------------------- *)
\* the exchange closes one more trading day
NewTradingDay ==
    /\ pc = "idle"
    /\ \E d \in TradeDays :
          /\ d > latest
          /\ \A e \in TradeDays : e > latest => d <= e
          /\ latest' = d
    /\ UNCHANGED <<file, dataframe, pc, locals, history, result, file0, latest0>>

\* load()
Load ==
    /\ pc = "idle"
    /\ dataframe' = load(file)
    /\ result' = Returned("load")
    /\ file0' = file
    /\ latest0' = latest
    /\ UNCHANGED <<file, latest, pc, locals, history>>

\* should_update()
ShouldUpdate ==
    /\ pc = "idle"
    /\ \E r \in should_update(file, dataframe, latest) :
          result' = [Returned("should_update") EXCEPT !.flag = r]
    /\ dataframe' = should_update_dataframe(file, dataframe)
    /\ file0' = file
    /\ latest0' = latest
    /\ UNCHANGED <<file, latest, pc, locals, history>>

\* start_date()
StartDate ==
    /\ pc = "idle"
    /\ result' = [Returned("start_date") EXCEPT !.day = start_date(file, dataframe)]
    /\ dataframe' = prepare(file, dataframe)
    /\ file0' = file
    /\ latest0' = latest
    /\ UNCHANGED <<file, latest, pc, locals, history>>

\* update() leaves: its locals go, the finally clause has run
Leave(frames, outcome) ==
    LET fin == finally_clause(frames, file, prepare(file, dataframe))
    IN  /\ dataframe' = fin.dataframe
        /\ file' = fin.file
        /\ writes' = fin.writes
        /\ result' = [NoResult EXCEPT !.op = "update", !.kind = outcome.kind,
                                      !.ex = outcome.ex]
        /\ lastEnd' = [valid |-> TRUE, file |-> fin.file, latest |-> latest,
                       kind |-> outcome.kind]
        /\ pc' = "idle"
        /\ last_trade_day' = 0
        /\ trad_date_list' = <<>>
        /\ idx' = 0
        /\ df_list' = <<>>

Normal == [kind |-> "returned", ex |-> "none"]

\* update() enters: prepare(), then should_update()
Enter(answer) ==
    /\ pc = "idle"
    /\ answer \in should_update(file, prepare(file, dataframe), latest)
    /\ needed' = answer
    /\ file0' = file
    /\ frame0' = prepare(file, dataframe)
    /\ latest0' = latest
    /\ prevEnd' = lastEnd
    /\ requests' = <<>>
    /\ fetched' = <<>>
    /\ fault' = NoFault
    /\ UNCHANGED latest

\* update() when should_update() is false
UpdateNotNeeded ==
    /\ Enter(FALSE)
    /\ dataframe' = prepare(file, dataframe)
    /\ result' = Returned("update")
    /\ lastEnd' = [valid |-> TRUE, file |-> file, latest |-> latest,
                   kind |-> "returned"]
    /\ writes' = 0
    /\ plan' = <<>>
    /\ UNCHANGED <<file, pc, locals>>

\* update() when no trading day is left to fetch
UpdateNothingToFetch ==
    /\ Enter(TRUE)
    /\ trade_day_between(start_date(file, dataframe), latest) = <<>>
    /\ plan' = <<>>
    /\ Leave(<<prepare(file, dataframe).rows>>, Normal)

\* update() up to the first fetch of its loop
UpdateBegin ==
    /\ Enter(TRUE)
    /\ trade_day_between(start_date(file, dataframe), latest) # <<>>
    /\ dataframe' = prepare(file, dataframe)
    /\ last_trade_day' = latest
    /\ df_list' = <<prepare(file, dataframe).rows>>
    /\ trad_date_list' = trade_day_between(start_date(file, dataframe), latest)
    /\ plan' = trade_day_between(start_date(file, dataframe), latest)
    /\ idx' = 1
    /\ pc' = "fetching"
    /\ writes' = 0
    /\ UNCHANGED <<file, result, lastEnd>>

\* the fetch of the loop's day returns; after the last day update() leaves
FetchReturns ==
    /\ pc = "fetching"
    /\ LET req == margin_detail_request(trad_date_list[idx])
       IN  \E answer \in margin_detail(req) :
             LET df == ts_margin_detail(answer)
                 frames == append_slice(df_list, df)
             IN  /\ requests' = Append(requests, req)
                 /\ fetched' = Append(fetched, df)
                 /\ IF idx < Len(trad_date_list)
                    THEN /\ idx' = idx + 1
                         /\ df_list' = frames
                         /\ UNCHANGED <<file, dataframe, pc, last_trade_day,
                                        trad_date_list, result, writes, lastEnd>>
                    ELSE Leave(frames, Normal)
    /\ UNCHANGED <<latest, file0, frame0, latest0, needed, plan, fault, prevEnd>>

\* the fetch of the loop's day raises: except clause, finally clause, out
FetchRaises ==
    /\ pc = "fetching"
    /\ \E ex \in Exceptions :
          /\ requests' = Append(requests, margin_detail_request(trad_date_list[idx]))
          /\ fault' = [at |-> idx, ex |-> ex]
          /\ Leave(df_list, except_clause(ex))
    /\ UNCHANGED <<latest, fetched, file0, frame0, latest0, needed, plan, prevEnd>>

Next ==
    \/ NewTradingDay
    \/ Load
    \/ ShouldUpdate
    \/ StartDate
    \/ UpdateNotNeeded
    \/ UpdateNothingToFetch
    \/ UpdateBegin
    \/ FetchReturns
    \/ FetchRaises

Spec == Init /\ [][Next]_vars

(* ------------------------------ properties ---------------------------- *)
TypeOK ==
    /\ file.exists \in BOOLEAN
    /\ dataframe.isNone \in BOOLEAN
    /\ latest \in TradeDays
    /\ pc \in {"idle", "fetching"}
    /\ writes \in 0 .. 1
    /\ (pc = "fetching") => (idx \in 1 .. Len(trad_date_list))

\* the last call was update() and it is over
UpdateEnded == pc = "idle" /\ result.op = "update"

\* the table on disk when the call began, and the one on disk now
CachedBefore == FileTable(file0)
CachedNow == FileTable(file)

\* the records of the frames the fetches of the call returned
FetchedRecords == UNION {Records(fetched[i]) : i \in 1 .. Len(fetched)}

\* the first trading day on or after d
FirstTradeDayFrom(d) == Min({t \in d .. (d + 6) : IsTradeDay(t)})

\* C1: when update() ran with should_update() true and every fetch succeeded,
\* the table in the cache file and the table in memory both hold every record
\* cached before and every record of every slice fetched during the call.
C1_UpdateMergesSlices ==
    (UpdateEnded /\ needed /\ result.kind = "returned")
        => /\ (Records(CachedBefore) \cup FetchedRecords) \subseteq Records(CachedNow)
           /\ (Records(frame0.rows) \cup FetchedRecords) \subseteq Records(dataframe.rows)

\* C2: started without a cache file, an update() that completes with a
\* non-empty slice for every day it asked for leaves a file that exists, holds
\* the fetched records, and begins at the first trading day from base_date.
C2_EmptyCachePopulated ==
    (UpdateEnded /\ result.kind = "returned" /\ ~file0.exists
        /\ fetched # <<>> /\ \A i \in 1 .. Len(fetched) : fetched[i] # <<>>)
        => /\ file.exists
           /\ FetchedRecords \subseteq Records(CachedNow)
           /\ CachedNow # <<>>
           /\ Min(Dates(CachedNow)) = FirstTradeDayFrom(base_date)

\* C3: when the fetch of the k-th day raised after the fetches of days
\* 1 .. k-1 returned, the file at the exit of update() holds the records
\* cached before and the records of those k-1 slices.
C3_PartialProgressPersisted ==
    (UpdateEnded /\ fault.at # 0)
        => (Records(CachedBefore) \cup FetchedRecords) \subseteq Records(CachedNow)

\* C4: a fetch that raises ends the loop: the call is over, the failed day is
\* the last query and was asked once, no later day was asked, and update()
\* raises the exception the fetch raised.
C4_FetchErrorStopsAndPropagates ==
    (fault.at # 0)
        => /\ pc = "idle"
           /\ Len(requests) = fault.at
           /\ \A i \in 1 .. Len(requests) :
                 requests[i].start_date = ts_date(plan[i])
           /\ Cardinality({i \in 1 .. Len(requests) :
                 requests[i].start_date = ts_date(plan[fault.at])}) = 1
           /\ UpdateEnded => (result.kind = "raised" /\ result.ex = fault.ex)

C4_Witness ==
    /\ UpdateEnded
    /\ fault.at = 2
    /\ Len(plan) > 2
    /\ result.kind = "raised"
    /\ result.ex = "Timeout"

\* C5: two update() runs in a row under the same latest trading day: the file
\* after the second is the file after the first (same rows, same order, absent
\* if it was absent).
C5_Idempotent ==
    (UpdateEnded /\ prevEnd.valid /\ prevEnd.latest = lastEnd.latest)
        => (file = prevEnd.file /\ lastEnd.file = prevEnd.file)

C5_Witness ==
    /\ UpdateEnded
    /\ prevEnd.valid
    /\ prevEnd.latest = lastEnd.latest
    /\ needed
    /\ \E i \in 1 .. Len(fetched) : fetched[i] # <<>>
    /\ file = prevEnd.file

\* C6: after update() has finished, whatever the cached table was, the cache
\* file is sorted ascending by trade date and no two of its records have the
\* same (trade date, entity); stated for the calls in which the merge is due,
\* those that fetched rows.
C6_FileSortedNoDuplicates ==
    (UpdateEnded /\ needed /\ \E i \in 1 .. Len(fetched) : fetched[i] # <<>>)
        => (IsSorted(CachedNow) /\ NoDuplicateKeys(CachedNow))

C8_StartDateAfterCache ==
    (pc = "idle" /\ result.op = "start_date")
        => /\ ~dataframe.isNone
           /\ dataframe.rows = <<>> => result.day = base_date
           /\ dataframe.rows # <<>> => result.day = Max(Dates(dataframe.rows)) + 1
           /\ \A d \in Dates(dataframe.rows) \cup Dates(CachedNow) : d < result.day

C8_Witness ==
    /\ pc = "idle"
    /\ result.op = "start_date"
    /\ lastEnd.valid
    /\ ~IsSorted(CachedNow)
    /\ result.day = Max(Dates(CachedNow)) + 1

\* C9: in an update() with should_update() true and no failing fetch, the
\* queries are the trading days from start_date to the latest trading day, in
\* calendar order, once each, one day per query, none on or before the cached
\* maximum.
C9_OneQueryPerMissingDay ==
    (UpdateEnded /\ needed /\ result.kind = "returned")
        => LET start == IF frame0.rows = <<>> THEN base_date
                        ELSE Max(Dates(frame0.rows)) + 1
               want == {d \in start .. latest0 : IsTradeDay(d)}
               asked(i) == parse_date(requests[i].start_date)
           IN  /\ Len(requests) = Cardinality(want)
               /\ \A i \in 1 .. Len(requests) :
                     /\ requests[i].start_date = requests[i].end_date
                     /\ requests[i].start_date = format_date(asked(i))
                     /\ asked(i) \in want
                     /\ \A d \in Dates(frame0.rows) \cup Dates(CachedBefore) :
                           d < asked(i)
               /\ \A i, j \in 1 .. Len(requests) : i < j => asked(i) < asked(j)

C9_Witness ==
    /\ UpdateEnded
    /\ needed
    /\ result.kind = "returned"
    /\ CachedBefore # <<>>
    /\ Len(requests) = 2
    /\ ~IsSorted(CachedBefore)
    /\ parse_date(requests[1].start_date) - Max(Dates(CachedBefore)) > 1

\* C10: update() loses no cached record and writes the file at most once, and
\* not while its fetch loop runs.
C10_NoRecordLost ==
    /\ (pc = "fetching") => (file = file0 /\ writes = 0)
    /\ UpdateEnded => /\ Records(CachedBefore) \subseteq Records(CachedNow)
                      /\ writes <= 1
                      /\ (file # file0) => writes = 1

C10_Witness ==
    /\ UpdateEnded
    /\ fault.at > 1
    /\ CachedBefore # <<>>
    /\ \E i \in 1 .. Len(fetched) : fetched[i] # <<>>
    /\ prevEnd.valid

====
